---- MODULE Spec2Model ----
(***************************************************************************)
(* FileHandler (src/unnamed/part_001): a process-wide table of per-path    *)
(* locks and the file operations that take them.  JavaScript runs the      *)
(* handlers on one thread: a handler runs from one await to the next       *)
(* without interruption, so every action below is one such run.            *)
(***************************************************************************)
EXTENDS Integers, Sequences, FiniteSets, TLC

\* ------------------------------------------------------------------ bounds
NumOps == 2          \* calls in flight in the general specification
NumAppenders == 3    \* concurrent appendFile calls of the usage example
NumSeq == 3          \* calls the sequential caller issues
NumJson == 2         \* calls in the JSON specification
NumProbe == 3        \* calls in the exists specification
NumRel == 2          \* operations running beside external releaseLock calls
NumStuck == 3        \* calls in the specification with direct acquireLock calls
NumSingle == 2       \* calls in the specification with constructions
NumLog == 2          \* concurrent Log calls
NumOrder == 3        \* calls in the specification with numbered calls
NumFair == 2         \* calls in the specification with fair scheduling
NumBypass == 3       \* calls in the exists / ensureDir specification

\* ------------------------------------------------------------------ paths
\* The path strings callers pass, and path.resolve of each (cwd is /cwd).
RawPaths == {"a.txt", "./a.txt", "b.txt"}

resolve(p) ==
    CASE p = "a.txt"   -> "/cwd/a.txt"
      [] p = "./a.txt" -> "/cwd/a.txt"
      [] p = "b.txt"   -> "/cwd/b.txt"
      [] OTHER         -> p        \* an absolute normalized path is kept

Paths == {resolve(p) : p \in RawPaths}

\* --------------------------------------------------------------- the Map
\* fileLocks is a Map from normalized path to true.
EmptyMap == [p \in {} |-> TRUE]

has(m, p) == p \in DOMAIN m

set(m, p) == [q \in (DOMAIN m) \cup {p} |-> TRUE]

deleteByFlag(m, p) == [q \in DOMAIN m |-> IF q = p THEN FALSE ELSE m[q]]

delete(m, p) == [q \in (DOMAIN m) \ {p} |-> m[q]]

\* ----------------------------------------------------------- file bytes
\* File contents and payloads are sequences of bytes (character codes).
EmptyFs == [p \in {} |-> <<>>]

Payload(i) == <<96 + i, 64 + i>>       \* "aA", "bB", "cC", ...

Hi == <<104, 105>>                     \* "hi"
Bang == <<33>>                         \* "!"
EmptyObjText == <<123, 125>>           \* "{}"
OneText == <<49>>                      \* "1"
Dir == <<256>>                         \* what a path that is a directory holds

LockKinds == {"readFile", "writeFile", "appendFile", "getStats",
              "deleteFile", "copyFile"}

\* ------------------------------------------------------------------ state
VARIABLES
    fileLocks,   \* FileHandler.fileLocks: the lock table
    files,       \* the filesystem: existing normalized path -> bytes
    op,          \* the calls: each one's arguments, position and result
    lastRelease, \* the releaseLock call made from outside the operations in
                 \* the step just taken (NoRelease when it was another step)
    singleton    \* FileHandler.instance and the handlers made and handed out

vars == <<fileLocks, files, op, lastRelease, singleton>>

\* instance: FileHandler.instance (0 while undefined, else the object);
\* objects: the handlers constructed with maps of their own; returned: the
\* objects that new FileHandler() and getInstance() have handed out; last:
\* the construction made in the step just taken ("" when it was another
\* step).  fileLocks is the map of FileHandler.instance.
NoHandler == [instance |-> 0, objects |-> 0, returned |-> {}, last |-> ""]

\* new FileHandler(): the instance there is, or a new one with new maps.
constructorAlwaysNew(st, locks, how) ==
    [st |-> [instance |-> st.objects + 1, objects |-> st.objects + 1,
             returned |-> st.returned \cup {st.objects + 1}, last |-> how],
     locks |-> EmptyMap]

constructor(st, locks, how) ==
    IF st.instance # 0
    THEN [st |-> [st EXCEPT !.returned = @ \cup {st.instance}, !.last = how],
          locks |-> locks]
    ELSE [st |-> [instance |-> st.objects + 1, objects |-> st.objects + 1,
                  returned |-> st.returned \cup {st.objects + 1}, last |-> how],
          locks |-> EmptyMap]

\* FileHandler.getInstance()
getInstance(st, locks, how) ==
    IF st.instance = 0
    THEN constructor(st, locks, how)
    ELSE [st |-> [st EXCEPT !.returned = @ \cup {st.instance}, !.last = how],
          locks |-> locks]

\* The module's last statement: export default FileHandler.getInstance().
Loaded == getInstance(NoHandler, EmptyMap, "").st

\* path: the normalized path released; threw: whether releaseLock raised;
\* held: whether the table had the entry; again: whether the step before
\* was a release of the same path.
NoRelease == [path |-> "", threw |-> FALSE, held |-> FALSE, again |-> FALSE]

\* A step of an operation: no releaseLock from outside, no construction.
Internal ==
    /\ lastRelease' = NoRelease
    /\ singleton' = [singleton EXCEPT !.last = ""]

\* A call not yet issued.
\*   pc       idle | wait | locked | io | iodone | inner | settled
\*   acq/rel  the paths this call has set in / deleted from the table, in order
\*   step     how far the filesystem call has got
\*   outcome  pending | resolved | rejected, with err the chain of messages
\*            (outermost first), value the bytes read, flag the boolean
\*            returned, json the value parsed
Idle ==
    [kind |-> "none", path |-> "", dest |-> "", data |-> <<>>, pc |-> "idle",
     acq |-> <<>>, rel |-> <<>>, step |-> 0, ioerr |-> "",
     outcome |-> "pending", err |-> <<>>, value |-> <<>>, flag |-> FALSE,
     json |-> "", waited |-> FALSE, seen |-> {}]

\* ---------------------------------------------------------------- JSON
\* JSON.stringify(obj, null, space) on the values callers pass.
stringify(obj) ==
    CASE obj = "emptyObject" -> [threw |-> FALSE, text |-> EmptyObjText]
      [] obj = "one"         -> [threw |-> FALSE, text |-> OneText]
      [] OTHER               -> [threw |-> TRUE, text |-> <<>>]  \* circular

\* JSON.parse(data) on the texts a file can hold here.
parse(text) ==
    CASE text = EmptyObjText -> [threw |-> FALSE, val |-> "emptyObject"]
      [] text = OneText      -> [threw |-> FALSE, val |-> "one"]
      [] Len(text) > 1 /\ \A i \in 1..Len(text) : text[i] = 49
                             -> [threw |-> FALSE, val |-> "ones"]
      [] OTHER               -> [threw |-> TRUE, val |-> ""]

\* ----------------------------------------------------- the lock registry
\* acquireLock from the loop test to the return or the sleep: one
\* synchronous run, entered on the call or (slept) when the timer fires.
acquireLockTestOnce(m, p, slept) ==
    IF has(m, p) /\ ~slept
    THEN [acquired |-> FALSE, locks |-> m]
    ELSE [acquired |-> TRUE, locks |-> set(m, p)]

acquireLockAnyEntry(m, p, slept) ==
    IF DOMAIN m # {}
    THEN [acquired |-> FALSE, locks |-> m]
    ELSE [acquired |-> TRUE, locks |-> set(m, p)]

acquireLock(m, p, slept) ==
    IF has(m, p)
    THEN [acquired |-> FALSE, locks |-> m]       \* sleep 10 ms, test again
    ELSE [acquired |-> TRUE, locks |-> set(m, p)]

releaseLockStrict(m, filePath) ==
    IF has(m, resolve(filePath))
    THEN [threw |-> FALSE, locks |-> delete(m, resolve(filePath))]
    ELSE [threw |-> TRUE, locks |-> m]

releaseLockRawKey(m, filePath) ==
    [threw |-> FALSE, locks |-> delete(m, filePath)]

releaseLock(m, filePath) ==
    [threw |-> FALSE, locks |-> delete(m, resolve(filePath))]

\* The path the call is (or will next be) asking acquireLock for.
Want(r) == IF Len(r.acq) = 0 THEN r.path ELSE r.dest

\* The paths the call has set and not yet deleted itself.
Held(r) == {r.acq[i] : i \in 1..Len(r.acq)} \ {r.rel[i] : i \in 1..Len(r.rel)}

\* Call o, being in state rec, runs acquireLock(p) up to its return or sleep.
Enter(o, rec, p) ==
    LET r == acquireLock(fileLocks, p, rec.pc = "wait") IN
    /\ fileLocks' = r.locks
    /\ op' = [op EXCEPT ![o] =
                IF r.acquired
                THEN [rec EXCEPT !.pc = "locked", !.acq = Append(@, p)]
                ELSE [rec EXCEPT !.pc = "wait", !.waited = TRUE]]

\* ------------------------------------------------------- the filesystem
Done(fs, err, value) == [fs |-> fs, done |-> TRUE, err |-> err, value |-> value]
More(fs) == [fs |-> fs, done |-> FALSE, err |-> "", value |-> <<>>]

Put(fs, p, bytes) == [q \in (DOMAIN fs) \cup {p} |-> IF q = p THEN bytes ELSE fs[q]]

Remove(fs, p) == [q \in (DOMAIN fs) \ {p} |-> fs[q]]

\* fs.readFile: the whole content, or ENOENT.
fsReadFile(fs, p) ==
    IF p \notin DOMAIN fs THEN Done(fs, "ENOENT", <<>>)
    ELSE IF fs[p] = Dir THEN Done(fs, "EISDIR", <<>>)
    ELSE Done(fs, "", fs[p])

\* One write of the open file: byte k of data goes to the end of the file
\* (a file unlinked meanwhile takes the bytes with it).
WriteByte(fs, p, data, k) ==
    LET fs2 == IF p \in DOMAIN fs /\ fs[p] # Dir
               THEN Put(fs, p, Append(fs[p], data[k])) ELSE fs
    IN  IF k = Len(data) THEN Done(fs2, "", <<>>) ELSE More(fs2)

\* fs.writeFile: open (create or truncate), which the system may refuse,
\* then the bytes one write at a time.
fsWriteFile(fs, p, data, k, refused) ==
    IF k = 0
    THEN IF p \in DOMAIN fs /\ fs[p] = Dir THEN Done(fs, "EISDIR", <<>>)
         ELSE IF refused THEN Done(fs, "EACCES", <<>>)
         ELSE IF Len(data) = 0 THEN Done(Put(fs, p, <<>>), "", <<>>)
         ELSE More(Put(fs, p, <<>>))
    ELSE WriteByte(fs, p, data, k)

\* fs.appendFile: open (create if absent), then the bytes one write at a time.
fsAppendFile(fs, p, data, k, refused) ==
    IF k = 0
    THEN IF p \in DOMAIN fs /\ fs[p] = Dir THEN Done(fs, "EISDIR", <<>>)
         ELSE IF refused THEN Done(fs, "EACCES", <<>>)
         ELSE LET fs2 == IF p \in DOMAIN fs THEN fs ELSE Put(fs, p, <<>>)
              IN  IF Len(data) = 0 THEN Done(fs2, "", <<>>) ELSE More(fs2)
    ELSE WriteByte(fs, p, data, k)

fsStat(fs, p) ==
    IF p \in DOMAIN fs THEN Done(fs, "", <<>>) ELSE Done(fs, "ENOENT", <<>>)

fsUnlink(fs, p) ==
    IF p \notin DOMAIN fs THEN Done(fs, "ENOENT", <<>>)
    ELSE IF fs[p] = Dir THEN Done(fs, "EISDIR", <<>>)
    ELSE Done(Remove(fs, p), "", <<>>)

fsCopyFile(fs, s, d) ==
    IF s \notin DOMAIN fs THEN Done(fs, "ENOENT", <<>>)
    ELSE IF fs[s] = Dir \/ (d \in DOMAIN fs /\ fs[d] = Dir) THEN Done(fs, "EISDIR", <<>>)
    ELSE Done(Put(fs, d, fs[s]), "", <<>>)

fsAccess(fs, p) ==
    IF p \in DOMAIN fs THEN Done(fs, "", <<>>) ELSE Done(fs, "ENOENT", <<>>)

\* fs.mkdir with recursive: true: a directory already there is no failure,
\* a file there is; the system may refuse to create one.
fsMkdir(fs, p, refused) ==
    IF p \in DOMAIN fs
    THEN IF fs[p] = Dir THEN Done(fs, "", <<>>) ELSE Done(fs, "EEXIST", <<>>)
    ELSE IF refused THEN Done(fs, "EACCES", <<>>)
    ELSE Done(Put(fs, p, Dir), "", <<>>)

\* path.join on the fragments of PATH that Log joins.
RootPath == "C://HOME/Programming/manage_chatgpts_memories/backend"
logs_dir_rel == "/files/logs"

join(a, b) ==
    CASE a = RootPath /\ b = logs_dir_rel
           -> "C:/HOME/Programming/manage_chatgpts_memories/backend/files/logs"
      [] a = "C:/HOME/Programming/manage_chatgpts_memories/backend/files/logs"
         /\ b = "log.log"
           -> "C:/HOME/Programming/manage_chatgpts_memories/backend/files/logs/log.log"
      [] OTHER -> a \o "/" \o b

logDir == join(RootPath, logs_dir_rel)
logPath == join(logDir, "log.log")

\* Log's two filesystem calls, one after the other: fs.promises.mkdir of
\* the directory, then fs.promises.appendFile of text + newline to the file
\* in it (which fails when the directory is not there).
Log(fs, text, k, refused) ==
    IF k = 0
    THEN LET m == fsMkdir(fs, logDir, refused)
         IN  IF m.err # "" THEN m ELSE More(m.fs)
    ELSE IF ~(logDir \in DOMAIN fs /\ fs[logDir] = Dir) /\ k = 1
         THEN Done(fs, "ENOENT", <<>>)
         ELSE fsAppendFile(fs, logPath, Append(text, 10), k - 1, refused)

\* Log's catch: the failure goes to console.error and the promise resolves.
LogRethrows(failed) ==
    [outcome |-> IF failed THEN "rejected" ELSE "resolved", reported |-> failed]

LogCatch(failed) == [outcome |-> "resolved", reported |-> failed]

\* The filesystem call each operation makes.
PrimitiveAppendWrites(kind) ==
    CASE kind \in {"readFile", "readJSON"}                 -> "fs.readFile"
      [] kind \in {"writeFile", "writeJSON", "appendFile"} -> "fs.writeFile"
      [] kind = "getStats"                                 -> "fs.stat"
      [] kind = "deleteFile"                               -> "fs.unlink"
      [] kind = "copyFile"                                 -> "fs.copyFile"
      [] kind = "exists"                                   -> "fs.access"
      [] kind = "ensureDir"                                -> "fs.mkdir"
      [] kind = "Log"                                      -> "fs.mkdir, fs.appendFile"

Primitive(kind) ==
    CASE kind \in {"readFile", "readJSON"}   -> "fs.readFile"
      [] kind \in {"writeFile", "writeJSON"} -> "fs.writeFile"
      [] kind = "appendFile"                 -> "fs.appendFile"
      [] kind = "getStats"                   -> "fs.stat"
      [] kind = "deleteFile"                 -> "fs.unlink"
      [] kind = "copyFile"                   -> "fs.copyFile"
      [] kind = "exists"                     -> "fs.access"
      [] kind = "ensureDir"                  -> "fs.mkdir"
      [] kind = "Log"                        -> "fs.mkdir, fs.appendFile"

fsStep(r, fs, refused) ==
    CASE Primitive(r.kind) = "fs.readFile"   -> fsReadFile(fs, r.path)
      [] Primitive(r.kind) = "fs.writeFile"  -> fsWriteFile(fs, r.path, r.data, r.step, refused)
      [] Primitive(r.kind) = "fs.appendFile" -> fsAppendFile(fs, r.path, r.data, r.step, refused)
      [] Primitive(r.kind) = "fs.stat"       -> fsStat(fs, r.path)
      [] Primitive(r.kind) = "fs.unlink"     -> fsUnlink(fs, r.path)
      [] Primitive(r.kind) = "fs.copyFile"   -> fsCopyFile(fs, r.path, r.dest)
      [] Primitive(r.kind) = "fs.access"     -> fsAccess(fs, r.path)
      [] Primitive(r.kind) = "fs.mkdir"      -> fsMkdir(fs, r.path, refused)
      [] OTHER                               -> Log(fs, r.data, r.step, refused)

\* The message each operation puts in front of the failure it caught.
Message(kind) ==
    CASE kind \in {"readFile", "readJSON"}   -> "Failed to read file"
      [] kind \in {"writeFile", "writeJSON"} -> "Failed to write file"
      [] kind = "appendFile"                 -> "Failed to append to file"
      [] kind = "getStats"                   -> "Failed to get stats for"
      [] kind = "deleteFile"                 -> "Failed to delete file"
      [] kind = "copyFile"                   -> "Failed to copy"
      [] kind = "ensureDir"                  -> "Failed to create directory"
      [] OTHER                               -> ""

\* ------------------------------------------------------------ operations
\* What the caller may pass: [kind, filePath, destination, data, obj].
Arg(kind, filePath, destination, data, obj) ==
    [kind |-> kind, filePath |-> filePath, destination |-> destination,
     data |-> data, obj |-> obj]

\* Facts about the other calls that a call to exists finds when it is made
\* and when it returns (history, kept for the properties only).
WrittenBefore(p) ==
    \E w \in DOMAIN op : /\ op[w].kind = "writeFile" /\ op[w].path = p
                         /\ op[w].pc = "settled" /\ op[w].outcome = "resolved"

DeleteRun(p) ==
    \E d \in DOMAIN op : /\ op[d].kind = "deleteFile" /\ op[d].path = p
                         /\ op[d].pc \in {"io", "iodone", "settled"}

\* The methods that make their filesystem call without acquireLock.
BypassesNone(kind) == FALSE

Bypasses(kind) == kind \in {"exists", "ensureDir"}

\* The caller invokes a method: it runs to its first suspension.
\*   readFile .. deleteFile, copyFile: into acquireLock(filePath / source)
\*   readJSON: into readFile; writeJSON: stringify, then into writeFile
\*   exists, ensureDir: straight into fs.access / fs.mkdir
\*   Log (utils.ts, not a method of the handler): straight into fs.mkdir
Call(o, c) ==
    /\ op[o].pc = "idle"
    /\ Internal
    /\ UNCHANGED files
    /\ LET rec == [Idle EXCEPT !.kind = c.kind,
                               !.path = resolve(c.filePath),
                               !.dest = IF c.kind = "copyFile"
                                        THEN resolve(c.destination) ELSE "",
                               !.data = c.data]
       IN CASE Bypasses(c.kind) \/ c.kind = "Log" ->
                 /\ op' = [op EXCEPT ![o] =
                        [rec EXCEPT !.pc = "io",
                                    !.seen = IF WrittenBefore(rec.path)
                                             THEN {"written"} ELSE {}]]
                 /\ UNCHANGED fileLocks
            [] c.kind = "writeJSON" ->
                 IF stringify(c.obj).threw
                 THEN /\ op' = [op EXCEPT ![o] =
                             [rec EXCEPT !.pc = "settled", !.outcome = "rejected",
                                         !.err = <<"Failed to write JSON to", "TypeError">>]]
                      /\ UNCHANGED fileLocks
                 ELSE Enter(o, [rec EXCEPT !.data = stringify(c.obj).text], rec.path)
            [] OTHER -> Enter(o, rec, rec.path)

\* The same, with the calls numbered in the order they are made.
CallInOrder(o, c) ==
    /\ \A e \in DOMAIN op : e < o => op[e].pc # "idle"
    /\ Call(o, c)

\* The 10 ms timer of a sleeping acquireLock fires: it tests the table again.
Retry(o) ==
    /\ op[o].pc = "wait"
    /\ Internal
    /\ UNCHANGED files
    /\ Enter(o, op[o], Want(op[o]))

\* acquireLock has returned: the operation goes on to its next await, which
\* is copyFile's second acquireLock or the filesystem call.  A caller that
\* called acquireLock itself just gets the normalized path: the entry stays
\* until somebody calls releaseLock.
Proceed(o) ==
    /\ op[o].pc = "locked"
    /\ Internal
    /\ UNCHANGED files
    /\ IF op[o].kind = "copyFile" /\ Len(op[o].acq) = 1
       THEN Enter(o, op[o], op[o].dest)
       ELSE /\ op' = [op EXCEPT ![o] =
                   IF op[o].kind = "acquireLock"
                   THEN [@ EXCEPT !.pc = "settled", !.outcome = "resolved"]
                   ELSE [@ EXCEPT !.pc = "io", !.step = 0]]
            /\ UNCHANGED fileLocks

\* Another call holds the lock of o's path and is in its filesystem call
\* (history, kept for the properties only).
BesideIo(o) ==
    \E b \in DOMAIN op :
        /\ b # o /\ op[b].pc = "io" /\ op[b].acq # <<>>
        /\ op[o].path \in {op[b].path, op[b].dest}
        /\ has(fileLocks, op[o].path)

\* Another call that took the lock of one of o's paths is in its filesystem
\* call while o, which took it too, is in its own (history, as above).
Overlap(o) ==
    \E b \in DOMAIN op :
        /\ b # o /\ op[b].pc = "io" /\ op[b].acq # <<>> /\ op[o].acq # <<>>
        /\ ({op[o].path, op[o].dest} \cap {op[b].path, op[b].dest}) \ {""} # {}

\* The filesystem call of o advances by one system call.
Io(o) ==
    /\ op[o].pc = "io"
    /\ Internal
    /\ UNCHANGED fileLocks
    /\ \E refused \in BOOLEAN :
         LET r == fsStep(op[o], files, refused)
             marks == (IF op[o].acq = <<>> /\ BesideIo(o) THEN {"besideIo"} ELSE {})
                      \cup (IF Overlap(o) THEN {"overlap"} ELSE {})
         IN
         /\ files' = r.fs
         /\ op' = [op EXCEPT ![o] =
                IF r.done
                THEN [@ EXCEPT !.pc = "iodone", !.ioerr = r.err, !.value = r.value,
                               !.seen = @ \cup marks]
                ELSE [@ EXCEPT !.step = @ + 1, !.seen = @ \cup marks]]

\* exists: true when fs.access returned, false when it threw.
existsRethrows(failed) ==
    [outcome |-> IF failed THEN "rejected" ELSE "resolved", flag |-> ~failed]

existsResult(failed) == [outcome |-> "resolved", flag |-> ~failed]

\* Calls that create the file at p and have got as far as their filesystem call.
CreateRun(p) ==
    \E w \in DOMAIN op :
        /\ op[w].pc \in {"io", "iodone", "inner", "settled"}
        /\ \/ Primitive(op[w].kind) \in {"fs.writeFile", "fs.appendFile"} /\ op[w].path = p
           \/ op[w].kind = "copyFile" /\ op[w].dest = p

\* The paths the finally block hands to releaseLock, in order.
ReleasesOnSuccessOnly(acq, failed) == IF failed THEN <<>> ELSE acq

ReleasesSourceOnly(acq, failed) == IF acq = <<>> THEN acq ELSE <<acq[1]>>

Releases(acq, failed) == acq

RECURSIVE ReleaseAll(_, _)
ReleaseAll(m, ps) ==
    IF ps = <<>> THEN m ELSE ReleaseAll(releaseLock(m, Head(ps)).locks, Tail(ps))

\* The filesystem call has settled: catch and finally run, and the
\* operation's own promise settles.  exists has no lock and cannot fail.
Finish(o) ==
    /\ op[o].pc = "iodone"
    /\ Internal
    /\ UNCHANGED files
    /\ LET r == op[o]
           failed == r.ioerr # ""
           rs == Releases(r.acq, failed)
       IN /\ fileLocks' = ReleaseAll(fileLocks, rs)
          /\ op' = [op EXCEPT ![o] =
                 IF r.kind = "exists"
                 THEN [r EXCEPT !.pc = "settled",
                                !.outcome = existsResult(failed).outcome,
                                !.flag = existsResult(failed).flag,
                                !.seen = @ \cup (IF DeleteRun(r.path) THEN {}
                                                 ELSE {"undeleted"})
                                           \cup (IF CreateRun(r.path) THEN {}
                                                 ELSE {"uncreated"})]
                 ELSE IF r.kind = "Log"
                 THEN [r EXCEPT !.pc = "settled",
                                !.outcome = LogCatch(failed).outcome,
                                !.seen = IF LogCatch(failed).reported
                                         THEN {"console.error"} ELSE {}]
                 ELSE [r EXCEPT
                         !.pc = IF r.kind \in {"readJSON", "writeJSON"}
                                THEN "inner" ELSE "settled",
                         !.rel = @ \o rs,
                         !.outcome = IF failed THEN "rejected" ELSE "resolved",
                         !.err = IF failed THEN <<Message(r.kind), r.ioerr>> ELSE <<>>,
                         !.flag = ~failed /\ Primitive(r.kind) \notin {"fs.readFile", "fs.stat"}]]

\* readJSON after the readFile it awaited: the await is outside the try, so
\* a read failure passes through; only JSON.parse is inside it.
readJSONAwaitInsideTry(r) ==
    IF r.outcome = "rejected" \/ parse(r.value).threw
    THEN [r EXCEPT !.pc = "settled", !.outcome = "rejected",
                   !.err = <<"Failed to parse JSON from", "SyntaxError">>]
    ELSE [r EXCEPT !.pc = "settled", !.json = parse(r.value).val]

readJSON(r) ==
    IF r.outcome = "rejected"
    THEN [r EXCEPT !.pc = "settled"]
    ELSE IF parse(r.value).threw
         THEN [r EXCEPT !.pc = "settled", !.outcome = "rejected",
                        !.err = <<"Failed to parse JSON from", "SyntaxError">>]
         ELSE [r EXCEPT !.pc = "settled", !.json = parse(r.value).val]

\* writeJSON after the writeFile it awaited inside its try: a write failure
\* is caught and wrapped like a stringify failure.
writeJSON(r) ==
    IF r.outcome = "rejected"
    THEN [r EXCEPT !.pc = "settled", !.err = <<"Failed to write JSON to">> \o @]
    ELSE [r EXCEPT !.pc = "settled"]

\* readJSON / writeJSON go on after the readFile / writeFile they awaited.
Wrap(o) ==
    /\ op[o].pc = "inner"
    /\ Internal
    /\ UNCHANGED <<files, fileLocks>>
    /\ op' = [op EXCEPT ![o] = IF op[o].kind = "readJSON"
                                THEN readJSON(op[o]) ELSE writeJSON(op[o])]

\* ----------------------------------------------- general specification
\* Any NumOps locking operations, issued at any time on any paths.
LockCalls ==
    {Arg(k, f, "", <<>>, "") : k \in {"readFile", "getStats", "deleteFile"}, f \in RawPaths}
    \cup {Arg("writeFile", f, "", Bang, "") : f \in RawPaths}
    \cup {Arg("appendFile", f, "", OneText, "") : f \in RawPaths}
    \cup {Arg("copyFile", f, g, <<>>, "") : f \in RawPaths, g \in RawPaths}

InitWith(n, fs) ==
    /\ fileLocks = EmptyMap
    /\ files = fs
    /\ op = [o \in 1..n |-> Idle]
    /\ lastRelease = NoRelease
    /\ singleton = Loaded

Init == InitWith(NumOps, ("/cwd/a.txt" :> OneText))

Next ==
    \/ \E o \in DOMAIN op, c \in LockCalls : Call(o, c)
    \/ \E o \in DOMAIN op : Retry(o)
    \/ \E o \in DOMAIN op : Proceed(o)
    \/ \E o \in DOMAIN op : Io(o)
    \/ \E o \in DOMAIN op : Finish(o)

Spec == Init /\ [][Next]_vars

\* -------------------------------------------- the usage example's appends
\* NumAppenders appendFile calls on one file, each with its own payload,
\* issued together (part_001 lines 197-203).
InitAppend == InitWith(NumAppenders, ("/cwd/a.txt" :> Hi))

CallAppend(o) ==
    \E f \in {"a.txt", "./a.txt"} : Call(o, Arg("appendFile", f, "", Payload(o), ""))

NextAppend ==
    \/ \E o \in DOMAIN op : CallAppend(o)
    \/ \E o \in DOMAIN op : Retry(o)
    \/ \E o \in DOMAIN op : Proceed(o)
    \/ \E o \in DOMAIN op : Io(o)
    \/ \E o \in DOMAIN op : Finish(o)

SpecAppend == InitAppend /\ [][NextAppend]_vars

\* ------------------------------------------------- a sequential caller
\* NumSeq calls, each awaited before the next is issued (part_001 lines
\* 185-188): call o is made when every earlier call has settled.
SeqCalls ==
    {Arg("writeFile", f, "", Hi, "") : f \in RawPaths}
    \cup {Arg("appendFile", f, "", Bang, "") : f \in RawPaths}
    \cup {Arg("readFile", f, "", <<>>, "") : f \in RawPaths}

SeqFs == ("/cwd/a.txt" :> OneText)

InitSeq == InitWith(NumSeq, SeqFs)

CallSeq(o) ==
    /\ \A e \in DOMAIN op : IF e < o THEN op[e].pc = "settled" ELSE op[e].pc = "idle"
    /\ \E c \in SeqCalls : Call(o, c)

NextSeq ==
    \/ \E o \in DOMAIN op : CallSeq(o)
    \/ \E o \in DOMAIN op : Proceed(o)
    \/ \E o \in DOMAIN op : Io(o)
    \/ \E o \in DOMAIN op : Finish(o)

SpecSeq == InitSeq /\ [][NextSeq]_vars

\* ---------------------------------------------------- JSON operations
JsonCalls ==
    {Arg("readJSON", f, "", <<>>, "") : f \in RawPaths}
    \cup {Arg("writeJSON", f, "", <<>>, v) : f \in RawPaths,
                                             v \in {"emptyObject", "one", "circular"}}

InitJson == InitWith(NumJson, ("/cwd/a.txt" :> Bang))

NextJson ==
    \/ \E o \in DOMAIN op, c \in JsonCalls : Call(o, c)
    \/ \E o \in DOMAIN op : Retry(o)
    \/ \E o \in DOMAIN op : Proceed(o)
    \/ \E o \in DOMAIN op : Io(o)
    \/ \E o \in DOMAIN op : Finish(o)
    \/ \E o \in DOMAIN op : Wrap(o)

SpecJson == InitJson /\ [][NextJson]_vars

\* ------------------------------------------------------------- exists
ProbeCalls ==
    {Arg(k, f, "", <<>>, "") : k \in {"exists", "deleteFile"}, f \in RawPaths}
    \cup {Arg("writeFile", f, "", Bang, "") : f \in RawPaths}

InitProbe == InitWith(NumProbe, EmptyFs)

NextProbe ==
    \/ \E o \in DOMAIN op, c \in ProbeCalls : Call(o, c)
    \/ \E o \in DOMAIN op : Retry(o)
    \/ \E o \in DOMAIN op : Proceed(o)
    \/ \E o \in DOMAIN op : Io(o)
    \/ \E o \in DOMAIN op : Finish(o)

SpecProbe == InitProbe /\ [][NextProbe]_vars

\* ------------------------------------- releaseLock called from outside
\* releaseLock is a public method: any code holding the handler may call
\* it with any path, beside the operations in flight (call o is the o-th
\* call made).
ExtRelease(f) ==
    LET r == releaseLock(fileLocks, f) IN
    /\ fileLocks' = r.locks
    /\ lastRelease' = [path |-> resolve(f), threw |-> r.threw,
                       held |-> has(fileLocks, resolve(f)),
                       again |-> lastRelease.path = resolve(f)]
    /\ singleton' = [singleton EXCEPT !.last = ""]
    /\ UNCHANGED <<files, op>>

RelCalls ==
    {Arg("readFile", f, "", <<>>, "") : f \in RawPaths}
    \cup {Arg("writeFile", f, "", Bang, "") : f \in RawPaths}

InitRel == InitWith(NumRel, ("/cwd/a.txt" :> OneText))

NextRel ==
    \/ \E o \in DOMAIN op, c \in RelCalls : CallInOrder(o, c)
    \/ \E o \in DOMAIN op : Retry(o)
    \/ \E o \in DOMAIN op : Proceed(o)
    \/ \E o \in DOMAIN op : Io(o)
    \/ \E o \in DOMAIN op : Finish(o)
    \/ \E f \in RawPaths : ExtRelease(f)

SpecRel == InitRel /\ [][NextRel]_vars

\* --------------------------------------------- exists and ensureDir
\* exists and ensureDir calls beside writeFile calls on the same paths.
BypassCalls ==
    {Arg(k, f, "", <<>>, "") : k \in {"exists", "ensureDir"}, f \in {"./a.txt", "b.txt"}}
    \cup {Arg("writeFile", f, "", <<>>, "") : f \in {"a.txt", "b.txt"}}

InitBypass == InitWith(NumBypass, ("/cwd/a.txt" :> OneText))

NextBypass ==
    \/ \E o \in DOMAIN op, c \in BypassCalls : Call(o, c)
    \/ \E o \in DOMAIN op : Retry(o)
    \/ \E o \in DOMAIN op : Proceed(o)
    \/ \E o \in DOMAIN op : Io(o)
    \/ \E o \in DOMAIN op : Finish(o)

SpecBypass == InitBypass /\ [][NextBypass]_vars

\* ------------------------------------------- acquireLock called directly
\* acquireLock is a public method too: a caller may take a path's entry and
\* never call releaseLock, beside the handler's own operations.  Call o is
\* the o-th call made.
StuckCalls ==
    {Arg(k, f, "", <<>>, "") : k \in {"acquireLock", "writeFile"}, f \in {"./a.txt", "b.txt"}}

InitStuck == InitWith(NumStuck, ("/cwd/a.txt" :> OneText))

NextStuck ==
    \/ \E o \in DOMAIN op, c \in StuckCalls : CallInOrder(o, c)
    \/ \E o \in DOMAIN op : Retry(o)
    \/ \E o \in DOMAIN op : Proceed(o)
    \/ \E o \in DOMAIN op : Io(o)
    \/ \E o \in DOMAIN op : Finish(o)

SpecStuck == InitStuck /\ [][NextStuck]_vars

\* ------------------------------------------------------- constructions
\* new FileHandler() and FileHandler.getInstance() called at any time, from
\* before the module's own getInstance() on, beside writeFile calls made
\* through the handler once there is one.
New ==
    LET r == constructor(singleton, fileLocks, "new") IN
    /\ singleton' = r.st
    /\ fileLocks' = r.locks
    /\ lastRelease' = NoRelease
    /\ UNCHANGED <<files, op>>

GetInstance ==
    LET r == getInstance(singleton, fileLocks, "getInstance") IN
    /\ singleton' = r.st
    /\ fileLocks' = r.locks
    /\ lastRelease' = NoRelease
    /\ UNCHANGED <<files, op>>

SingleCalls == {Arg("writeFile", f, "", <<>>, "") : f \in {"./a.txt", "b.txt"}}

InitSingle ==
    /\ fileLocks = EmptyMap
    /\ files = EmptyFs
    /\ op = [o \in 1..NumSingle |-> Idle]
    /\ lastRelease = NoRelease
    /\ singleton = NoHandler

NextSingle ==
    \/ New
    \/ GetInstance
    \/ \E o \in DOMAIN op, c \in SingleCalls : singleton.instance # 0 /\ Call(o, c)
    \/ \E o \in DOMAIN op : Retry(o)
    \/ \E o \in DOMAIN op : Proceed(o)
    \/ \E o \in DOMAIN op : Io(o)
    \/ \E o \in DOMAIN op : Finish(o)

SpecSingle == InitSingle /\ [][NextSingle]_vars

\* ---------------------------------------------------------------- Log
\* Concurrent Log calls, each with its own text, on a filesystem where the
\* log directory is missing, is there, or is a file.
InitLog ==
    /\ fileLocks = EmptyMap
    /\ files \in {EmptyFs, (logDir :> Dir), (logDir :> OneText)}
    /\ op = [o \in 1..NumLog |-> Idle]
    /\ lastRelease = NoRelease
    /\ singleton = Loaded

CallLog(o) == Call(o, Arg("Log", "", "", Payload(o), ""))

NextLog ==
    \/ \E o \in DOMAIN op : CallLog(o)
    \/ \E o \in DOMAIN op : Io(o)
    \/ \E o \in DOMAIN op : Finish(o)

SpecLog == InitLog /\ [][NextLog]_vars

\* ------------------------------------------------ calls in a known order
\* writeFile and readFile calls made one after another without awaiting
\* them: call o is the o-th call made.
OrderCalls ==
    {Arg("writeFile", f, "", <<>>, "") : f \in {"a.txt", "b.txt"}}
    \cup {Arg("readFile", f, "", <<>>, "") : f \in {"./a.txt"}}

InitOrder == InitWith(NumOrder, ("/cwd/a.txt" :> OneText))

NextOrder ==
    \/ \E o \in DOMAIN op, c \in OrderCalls : CallInOrder(o, c)
    \/ \E o \in DOMAIN op : Retry(o)
    \/ \E o \in DOMAIN op : Proceed(o)
    \/ \E o \in DOMAIN op : Io(o)
    \/ \E o \in DOMAIN op : Finish(o)

SpecOrder == InitOrder /\ [][NextOrder]_vars

\* ------------------------------------------------------ fair scheduling
\* Single-path locking calls only, and an event loop that runs every
\* continuation that is ready: a timer of acquireLock that has expired, the
\* return of acquireLock, each system call of a filesystem call (which ends,
\* with a result or an error), and the catch/finally blocks after it.
FairCalls ==
    {Arg(k, f, "", <<>>, "") : k \in {"readFile", "getStats", "deleteFile"},
                               f \in {"a.txt", "b.txt"}}
    \cup {Arg("writeFile", f, "", <<>>, "") : f \in {"a.txt", "b.txt"}}
    \cup {Arg("appendFile", f, "", OneText, "") : f \in {"a.txt", "b.txt"}}

InitFair == InitWith(NumFair, ("/cwd/a.txt" :> OneText))

NextFair ==
    \/ \E o \in DOMAIN op, c \in FairCalls : CallInOrder(o, c)
    \/ \E o \in DOMAIN op : Retry(o)
    \/ \E o \in DOMAIN op : Proceed(o)
    \/ \E o \in DOMAIN op : Io(o)
    \/ \E o \in DOMAIN op : Finish(o)

EventLoop ==
    \A o \in 1..NumFair :
        /\ WF_vars(Retry(o))
        /\ WF_vars(Proceed(o))
        /\ WF_vars(Io(o))
        /\ WF_vars(Finish(o))

SpecFair == InitFair /\ [][NextFair]_vars /\ EventLoop

\* ================================================================ claims
Settled(o) == op[o].pc = "settled"
InFlight(o) == op[o].pc \notin {"idle", "settled"}
Targets(r) == IF r.kind = "copyFile" THEN {r.path, r.dest} ELSE {r.path}
Holders(p) == {o \in DOMAIN op : p \in Held(op[o])}

\* C1: at most one operation at a time is inside its filesystem call on a
\* normalized path: an operation in its I/O holds the lock of each path it
\* targets, no other operation holds or is in I/O on any of them, and no two
\* operations ever hold the same path (the test and the set are one step).
C1_OneIoPerPath ==
    \A a \in DOMAIN op, b \in DOMAIN op :
        a # b =>
          /\ Held(op[a]) \cap Held(op[b]) = {}
          /\ op[a].pc = "io" =>
               /\ Targets(op[a]) \subseteq Held(op[a])
               /\ Targets(op[a]) \subseteq DOMAIN fileLocks
               /\ Targets(op[a]) \cap Held(op[b]) = {}
               /\ op[b].pc = "io" => Targets(op[a]) \cap Targets(op[b]) = {}

\* An operation that had to wait is in its I/O after the first holder of the
\* same path settled.
C1_Witness ==
    \E a \in DOMAIN op, b \in DOMAIN op :
        /\ a # b /\ op[b].pc = "io" /\ op[b].waited
        /\ Settled(a) /\ op[a].path \in Targets(op[b]) /\ Len(op[a].rel) > 0

\* C2: copy(A, B) beside copy(B, A) never reaches the state where one copy
\* holds A and waits for B while the other holds B and waits for A.
C2_NoCircularWait ==
    \A a \in DOMAIN op, b \in DOMAIN op :
        ~ /\ a # b
          /\ op[a].kind = "copyFile" /\ op[b].kind = "copyFile"
          /\ op[a].path # op[a].dest
          /\ op[a].path = op[b].dest /\ op[a].dest = op[b].path
          /\ op[a].pc = "wait" /\ Held(op[a]) = {op[a].path}
          /\ op[b].pc = "wait" /\ Held(op[b]) = {op[b].path}

\* C3: when a locking operation's promise settles, with a result or with a
\* failure, it has released each lock it acquired exactly once and holds none.
C3_ReleasedOnSettle ==
    \A o \in DOMAIN op :
        (op[o].kind \in LockKinds /\ Settled(o)) =>
          /\ Held(op[o]) = {}
          /\ op[o].rel = op[o].acq
          /\ Len(op[o].acq) = IF op[o].kind = "copyFile" THEN 2 ELSE 1
          /\ \A p \in Targets(op[o]) : has(fileLocks, p) => Holders(p) # {}

\* A copy has failed and another operation has succeeded: both have settled.
C3_Witness ==
    \E a \in DOMAIN op, b \in DOMAIN op :
        /\ Settled(a) /\ op[a].kind = "copyFile" /\ op[a].outcome = "rejected"
        /\ Settled(b) /\ op[b].kind \in LockKinds /\ op[b].outcome = "resolved"

\* C4: with the operations as the only callers of releaseLock, a normalized
\* path is a key of fileLocks exactly when one operation in flight holds it;
\* entries are true or absent; the table is empty when nothing is in flight.
C4_TableIffHeld ==
    /\ DOMAIN fileLocks \subseteq Paths
    /\ \A p \in Paths : has(fileLocks, p) <=> Cardinality(Holders(p)) = 1
    /\ \A p \in DOMAIN fileLocks : fileLocks[p] = TRUE /\ \A o \in Holders(p) : InFlight(o)
    /\ Cardinality(DOMAIN fileLocks)
         <= Cardinality({<<o, p>> \in (DOMAIN op) \X Paths : InFlight(o) /\ p \in Held(op[o])})
    /\ (\A o \in DOMAIN op : ~InFlight(o)) => fileLocks = EmptyMap

\* One operation has released its entry and the table holds exactly the
\* entry of the operation now in its I/O.
C4_Witness ==
    \E a \in DOMAIN op, b \in DOMAIN op :
        /\ Settled(a) /\ Len(op[a].rel) > 0
        /\ op[b].pc = "io" /\ DOMAIN fileLocks = Held(op[b])

\* C5: a releaseLock call for a path that is not in the table (as it is when
\* the step before released the same path) does not raise and leaves the
\* table as it was.
C5_ReleaseUnheldNoOp ==
    [][(lastRelease'.path # "" /\ (~lastRelease'.held \/ lastRelease'.again))
          => (~lastRelease'.threw /\ fileLocks' = fileLocks)]_vars

\* releaseLock was called twice in a row for a path, while the table holds
\* another path's entry.
C5_Witness ==
    /\ lastRelease.path # "" /\ lastRelease.again /\ ~lastRelease.held
    /\ fileLocks # EmptyMap

\* The ways to put the calls of S in a row, and the payloads of a row joined.
Orders(S) ==
    {f \in [1..Cardinality(S) -> S] : \A i, j \in 1..Cardinality(S) : f[i] = f[j] => i = j}

RECURSIVE Joined(_, _)
Joined(f, n) == IF n = 0 THEN <<>> ELSE Joined(f, n - 1) \o op[f[n]].data

\* C6: when the concurrent appendFile calls on one file have all settled,
\* the file holds its initial content followed by the payload of every
\* append that succeeded, each whole, in some order: none is lost, doubled
\* or mixed with another (a refused append adds nothing).
C6_AppendsWhole ==
    (\A o \in DOMAIN op : Settled(o)) =>
        LET ok == {o \in DOMAIN op : op[o].outcome = "resolved"} IN
        \E f \in Orders(ok) : files["/cwd/a.txt"] = Hi \o Joined(f, Cardinality(ok))

\* Every append has succeeded, and at least two of them had to wait.
C6_Witness ==
    /\ \A o \in DOMAIN op : Settled(o) /\ op[o].outcome = "resolved"
    /\ \E a \in DOMAIN op, b \in DOMAIN op : a # b /\ op[a].waited /\ op[b].waited

\* The filesystem after calls 1..k have run one after another: writeFile
\* replaces the content, appendFile adds to it, a failed call changes nothing.
RECURSIVE After(_)
After(k) ==
    IF k = 0 THEN SeqFs
    ELSE LET fs == After(k - 1)
             r == op[k]
             old == IF r.path \in DOMAIN fs THEN fs[r.path] ELSE <<>>
         IN  CASE r.outcome # "resolved" -> fs
               [] r.kind = "writeFile"   -> Put(fs, r.path, r.data)
               [] r.kind = "appendFile"  -> Put(fs, r.path, old \o r.data)
               [] OTHER                  -> fs

\* C7: for calls issued one after another, each call sees the effect of all
\* the earlier ones: a readFile returns what the earlier writes and appends
\* to its path add up to (and fails only if none created the file), the
\* files are those the calls so far add up to, no call waits for a lock and
\* the table is empty between the calls.
C7_SequentialEffects ==
    /\ \A o \in DOMAIN op :
         /\ ~op[o].waited
         /\ (Settled(o) /\ op[o].kind = "readFile") =>
               IF op[o].path \in DOMAIN After(o - 1)
               THEN op[o].outcome = "resolved" /\ op[o].value = After(o - 1)[op[o].path]
               ELSE op[o].outcome = "rejected"
         /\ (Settled(o) /\ \A e \in DOMAIN op : e > o => op[e].pc = "idle") => files = After(o)
    /\ (\A o \in DOMAIN op : ~InFlight(o)) => fileLocks = EmptyMap

\* writeFile(p, "hi"), appendFile(p, "!"), readFile(p) have run in this
\* order on a file that held something else, and the read returned "hi!".
C7_Witness ==
    /\ Settled(3)
    /\ op[1].kind = "writeFile" /\ op[1].outcome = "resolved"
    /\ op[2].kind = "appendFile" /\ op[2].outcome = "resolved"
    /\ op[3].kind = "readFile" /\ op[3].outcome = "resolved"
    /\ op[1].path = "/cwd/a.txt" /\ op[2].path = "/cwd/a.txt" /\ op[3].path = "/cwd/a.txt"
    /\ op[3].value = <<104, 105, 33>>

\* C8: a readJSON whose read failed (the file is missing) is rejected with
\* the read failure's message, not the parse failure's; the parse failure
\* is reported exactly when the read succeeded and the content is not JSON;
\* otherwise the parsed value is returned; in every case the call holds no
\* lock once it has settled.
C8_ReadJSONFailure ==
    \A o \in DOMAIN op :
        (op[o].kind = "readJSON" /\ Settled(o)) =>
          /\ op[o].ioerr # "" =>
               op[o].outcome = "rejected" /\ Head(op[o].err) = "Failed to read file"
          /\ (op[o].ioerr = "" /\ parse(op[o].value).threw) =>
               op[o].outcome = "rejected" /\ Head(op[o].err) = "Failed to parse JSON from"
          /\ (op[o].ioerr = "" /\ ~parse(op[o].value).threw) =>
               op[o].outcome = "resolved" /\ op[o].json = parse(op[o].value).val
          /\ Held(op[o]) = {} /\ op[o].rel = op[o].acq /\ Len(op[o].acq) = 1
          /\ has(fileLocks, op[o].path) => Holders(op[o].path) # {}

\* One readJSON on a missing file and one on a file that is not JSON have
\* both been rejected.
C8_Witness ==
    \E a \in DOMAIN op, b \in DOMAIN op :
        /\ op[a].kind = "readJSON" /\ Settled(a) /\ op[a].ioerr = "ENOENT"
        /\ op[a].outcome = "rejected"
        /\ op[b].kind = "readJSON" /\ Settled(b) /\ op[b].ioerr = "" 
        /\ op[b].outcome = "rejected"

\* C9: a writeJSON that failed because the write failed is rejected with
\* the write failure (as writeFile raises it), and so with a failure other
\* than the one a value that cannot be serialized gives.
C9_WriteJSONFailureKinds ==
    \A a \in DOMAIN op, b \in DOMAIN op :
        ( /\ op[a].kind = "writeJSON" /\ Settled(a) /\ op[a].outcome = "rejected"
          /\ op[b].kind = "writeJSON" /\ Settled(b) /\ op[b].outcome = "rejected"
          /\ op[a].ioerr # "" /\ op[b].acq = <<>> ) =>
            /\ Head(op[a].err) = Message("writeFile")
            /\ Head(op[a].err) # Head(op[b].err)

\* C10: exists never fails; it returns false for a file that nothing has
\* created by the time it returns, and true when it was called after a
\* writeFile on the path had succeeded and no deleteFile on the path has
\* got to its unlink by the time it returns.
C10_Exists ==
    \A o \in DOMAIN op :
        /\ op[o].kind = "exists" => op[o].outcome # "rejected"
        /\ (op[o].kind = "exists" /\ Settled(o)) =>
             /\ op[o].outcome = "resolved"
             /\ "uncreated" \in op[o].seen => ~op[o].flag
             /\ {"written", "undeleted"} \subseteq op[o].seen => op[o].flag

\* One exists has returned true after a writeFile, another false on a path
\* never created.
C10_Witness ==
    \E a \in DOMAIN op, b \in DOMAIN op :
        /\ op[a].kind = "exists" /\ Settled(a) /\ op[a].flag
        /\ {"written", "undeleted"} \subseteq op[a].seen
        /\ op[b].kind = "exists" /\ Settled(b) /\ ~op[b].flag
        /\ "uncreated" \in op[b].seen

\* C11: exists and ensureDir bypass the lock table: no step of such a call
\* changes the table, the call is never waiting for a lock and never has
\* acquired or released one, whatever the table holds.
C11_BypassLockTable ==
    [][\A o \in DOMAIN op :
          (op'[o].kind \in {"exists", "ensureDir"} /\ op'[o] # op[o]) =>
             /\ fileLocks' = fileLocks
             /\ op'[o].pc \in {"io", "iodone", "settled"}
             /\ op'[o].acq = <<>> /\ op'[o].rel = <<>> /\ ~op'[o].waited]_vars

\* An exists and an ensureDir have each made their filesystem call while
\* another call held the lock of the same path and was in its own.
C11_Witness ==
    \E a \in DOMAIN op, b \in DOMAIN op :
        /\ op[a].kind = "exists" /\ "besideIo" \in op[a].seen
        /\ op[b].kind = "ensureDir" /\ "besideIo" \in op[b].seen

\* The entry of p was taken by a direct acquireLock call that has returned:
\* nothing in the specification will release it.
Abandoned(p) ==
    \E a \in DOMAIN op : op[a].kind = "acquireLock" /\ Settled(a) /\ p \in Held(op[a])

\* C12: a call waiting in acquireLock leaves the wait only by acquiring the
\* lock (no timeout, no cancellation, no failure): any step that changes it
\* finds the entry absent, inserts it and leaves the call pending with the
\* lock; and while the entry belongs to a holder that never releases it,
\* no step changes the waiting call or removes the entry.
C12_WaitEndsOnlyByAcquiring ==
    [][\A o \in DOMAIN op :
          op[o].pc = "wait" =>
            /\ op'[o] # op[o] =>
                 /\ ~has(fileLocks, Want(op[o])) /\ has(fileLocks', Want(op[o]))
                 /\ op'[o] = [op[o] EXCEPT !.pc = "locked", !.acq = Append(@, Want(op[o]))]
            /\ Abandoned(Want(op[o])) =>
                 /\ op'[o] = op[o]
                 /\ has(fileLocks', Want(op[o]))]_vars

\* A writeFile waits for a path whose entry was taken and never released,
\* while a writeFile on the other path, called after it, has completed.
C12_Witness ==
    \E b \in DOMAIN op, c \in DOMAIN op :
        /\ op[b].pc = "wait" /\ op[b].kind = "writeFile" /\ Abandoned(op[b].path)
        /\ op[c].kind = "writeFile" /\ Settled(c) /\ op[c].outcome = "resolved"
        /\ op[c].path # op[b].path /\ b < c

\* C13: operations on different normalized paths never block each other:
\* a locking call made while its path is absent from the table inserts the
\* entry and goes on without any wait, whatever other paths are held; it
\* waits exactly when its own path is present; and a waiting call whose
\* path has become absent acquires it when it next runs.
C13_DistinctPathsDoNotBlock ==
    [][\A o \in DOMAIN op :
          /\ (op[o].pc = "idle" /\ op'[o].pc # "idle") =>
                IF has(fileLocks, op'[o].path)
                THEN op'[o].pc = "wait" /\ fileLocks' = fileLocks
                ELSE /\ op'[o].pc = "locked" /\ ~op'[o].waited
                     /\ op'[o].acq = <<op'[o].path>>
                     /\ fileLocks' = set(fileLocks, op'[o].path)
          /\ (op[o].pc = "wait" /\ op'[o] # op[o]) =>
                ~has(fileLocks, Want(op[o])) /\ op'[o].pc = "locked"]_vars

\* Two single-path operations on different paths are in their filesystem
\* calls at the same time, and neither has waited.
C13_Witness ==
    \E a \in DOMAIN op, b \in DOMAIN op :
        /\ op[a].pc = "io" /\ op[b].pc = "io" /\ op[a].path # op[b].path
        /\ op[a].kind # "copyFile" /\ op[b].kind # "copyFile"
        /\ ~op[a].waited /\ ~op[b].waited
        /\ DOMAIN fileLocks = {op[a].path, op[b].path}

\* C14: there is one lock table for the life of the process: every
\* construction hands out the one instance, only the first makes maps, and
\* a construction made when the instance exists leaves FileHandler.instance
\* and its fileLocks, with the locks held in it, as they were.
C14_OneLockTable ==
    [][/\ singleton.instance # 0 => singleton'.instance = singleton.instance
       /\ singleton'.last # "" =>
            /\ singleton'.objects = 1
            /\ singleton'.returned = {singleton'.instance}
            /\ singleton.instance # 0 => fileLocks' = fileLocks
            /\ singleton.instance = 0 => fileLocks' = EmptyMap]_vars

\* new FileHandler() has just been called while a writeFile held a lock and
\* was in its filesystem call, after getInstance() had handed out the instance.
C14_Witness ==
    /\ singleton.last = "new" /\ singleton.objects = 1
    /\ \E o \in DOMAIN op : op[o].pc = "io" /\ has(fileLocks, op[o].path)

RECURSIVE IsSubseq(_, _)
IsSubseq(s, t) ==
    IF s = <<>> THEN TRUE
    ELSE IF t = <<>> THEN FALSE
    ELSE IF Head(s) = Head(t) THEN IsSubseq(Tail(s), Tail(t))
    ELSE IsSubseq(s, Tail(t))

RECURSIVE LogBytes(_)
LogBytes(S) ==
    IF S = {} THEN 0
    ELSE LET o == CHOOSE x \in S : TRUE IN Len(op[o].data) + 1 + LogBytes(S \ {o})

\* C15: Log never rejects: a failure of its mkdir or of its appendFile is
\* reported to console.error and the promise resolves.  The append starts
\* only when the directory is there, and a Log that succeeded has added its
\* text and then a newline to the log file (alone, the file is exactly that).
C15_LogSwallowsFailures ==
    /\ \A o \in DOMAIN op :
         op[o].kind = "Log" =>
           /\ op[o].outcome # "rejected"
           /\ (op[o].pc = "io" /\ op[o].step >= 2) =>
                 logDir \in DOMAIN files /\ files[logDir] = Dir
           /\ Settled(o) =>
                /\ op[o].outcome = "resolved"
                /\ "console.error" \in op[o].seen <=> op[o].ioerr # ""
                /\ op[o].ioerr = "" =>
                     /\ files[logDir] = Dir
                     /\ IsSubseq(Append(op[o].data, 10), files[logPath])
    /\ (\A o \in DOMAIN op : ~InFlight(o)) =>
         LET ok == {o \in DOMAIN op : Settled(o) /\ op[o].ioerr = ""} IN
         /\ ok # {} => Len(files[logPath]) = LogBytes(ok)
         /\ \A o \in ok : Cardinality(ok) = 1 => files[logPath] = Append(op[o].data, 10)

\* One Log has failed and reported it, another has written its line; both
\* have resolved.
C15_Witness ==
    \E a \in DOMAIN op, b \in DOMAIN op :
        /\ op[a].kind = "Log" /\ Settled(a) /\ op[a].ioerr # ""
        /\ op[a].outcome = "resolved" /\ "console.error" \in op[a].seen
        /\ op[b].kind = "Log" /\ Settled(b) /\ op[b].ioerr = ""
        /\ op[b].outcome = "resolved"

\* C16: copyFile acquires the source lock first and the destination lock
\* second, never more; while it waits for the destination it holds the
\* source; it is in its filesystem call only holding both; and when it has
\* settled, with or without a failure, it has released both.
C16_CopyLocks ==
    \A o \in DOMAIN op :
        op[o].kind = "copyFile" =>
          /\ op[o].acq \in {<<>>, <<op[o].path>>, <<op[o].path, op[o].dest>>}
          /\ Cardinality(Held(op[o])) <= 2
          /\ (op[o].pc \in {"wait", "locked"} /\ Len(op[o].acq) = 1) =>
                Held(op[o]) = {op[o].path} /\ has(fileLocks, op[o].path)
          /\ op[o].pc \in {"io", "iodone"} =>
                /\ Held(op[o]) = {op[o].path, op[o].dest}
                /\ {op[o].path, op[o].dest} \subseteq DOMAIN fileLocks
                /\ Holders(op[o].path) = {o} /\ Holders(op[o].dest) = {o}
          /\ Settled(o) =>
                /\ op[o].rel = <<op[o].path, op[o].dest>>
                /\ Held(op[o]) = {}
                /\ \A p \in Targets(op[o]) : has(fileLocks, p) => Holders(p) # {}

\* A copyFile holds its source and waits for its destination, which another
\* operation holds while in its filesystem call.
C16_Witness ==
    \E a \in DOMAIN op, b \in DOMAIN op :
        /\ op[a].kind = "copyFile" /\ op[a].pc = "wait" /\ Len(op[a].acq) = 1
        /\ op[a].path # op[a].dest /\ Held(op[a]) = {op[a].path}
        /\ b # a /\ op[b].pc = "io" /\ op[a].dest \in Held(op[b])

\* C17: releaseLock removes the entry whoever holds it: a call from outside
\* the operations deletes the entry of its path (and nothing else, and does
\* not raise) also while an operation holds it, and an operation's own
\* release on exit deletes the entries of its paths also when another
\* operation has inserted them since.
C17_ReleaseIgnoresOwner ==
    [][/\ lastRelease'.path # "" =>
            /\ ~lastRelease'.threw
            /\ fileLocks' = delete(fileLocks, lastRelease'.path)
            /\ op' = op
       /\ \A o \in DOMAIN op :
            (op[o].pc = "iodone" /\ op'[o].pc # "iodone") =>
               \A p \in Held(op[o]) : ~has(fileLocks', p)]_vars

\* The entry of a writeFile in its filesystem call was released from
\* outside, a second call on the path acquired it and ran its filesystem
\* call beside the first, and the first has settled and removed the entry:
\* the second is still in its call, holding a lock the table does not have.
C17_Witness ==
    \E a \in DOMAIN op, b \in DOMAIN op :
        /\ Settled(a) /\ op[a].path = op[b].path /\ "overlap" \in op[a].seen
        /\ op[b].pc = "io" /\ "overlap" \in op[b].seen
        /\ op[b].path \in Held(op[b])
        /\ ~has(fileLocks, op[b].path)
        /\ lastRelease = NoRelease

\* C18: operations on one path are ordered by acquisition: a call acquires
\* a path only in a step where nobody holds it, one call per step, so the
\* times two calls hold a path never overlap; and the order is not the
\* order of the calls: a call that finds the path free takes it at once,
\* whichever earlier calls are asleep waiting for it.
C18_OrderedByAcquisition ==
    [][\A o \in DOMAIN op :
          /\ Len(op'[o].acq) > Len(op[o].acq) =>
               /\ Holders(op'[o].acq[Len(op'[o].acq)]) = {}
               /\ \A b \in DOMAIN op : b # o => op'[b] = op[b]
          /\ (op[o].pc = "idle" /\ op'[o].pc # "idle" /\ ~has(fileLocks, op'[o].path)) =>
               op'[o].pc = "locked" /\ op'[o].path \in Held(op'[o])]_vars

\* A call made later holds the lock, without having waited, while a call
\* made earlier on the same path is still waiting for it.
C18_Witness ==
    \E b \in DOMAIN op, c \in DOMAIN op :
        /\ b < c /\ op[b].path = op[c].path
        /\ op[b].pc = "wait" /\ op[b].acq = <<>>
        /\ op[c].pc = "io" /\ ~op[c].waited /\ op[c].path \in Held(op[c])

\* C19: a copyFile whose source and destination resolve to the same path
\* never completes: it never reaches fs.copyFile or its finally block, and
\* once it holds the path as source it stays in acquireLock for the
\* destination, the entry stays in the table, and every other call that is
\* waiting for the path stays waiting.
C19_SelfCopyNeverCompletes ==
    [][\A o \in DOMAIN op :
          (op[o].kind = "copyFile" /\ op[o].path = op[o].dest) =>
             /\ op[o].pc \in {"wait", "locked"}
             /\ op[o].rel = <<>> /\ Len(op[o].acq) <= 1
             /\ op[o].acq # <<>> =>
                  /\ op'[o].pc \in {"wait", "locked"} /\ op'[o].acq = op[o].acq
                  /\ op'[o].pc = "locked" => op'[o] = op[o]
                  /\ has(fileLocks, op[o].path) /\ has(fileLocks', op[o].path)
                  /\ (op[o].path \in DOMAIN files) = (op[o].path \in DOMAIN files')
                  /\ op[o].path \in DOMAIN files =>
                       files'[op[o].path] = files[op[o].path]
                  /\ \A b \in DOMAIN op : b # o =>
                       /\ op[o].path \notin Held(op[b]) \cup Held(op'[b])
                       /\ (op[b].pc = "wait" /\ Want(op[b]) = op[o].path) =>
                             op'[b].pc = "wait"
                       /\ (op[b].pc = "idle" /\ op'[b].pc # "idle"
                           /\ op'[b].path = op[o].path) => op'[b].pc = "wait"]_vars

\* The copy holds the path as source and has slept waiting for it as
\* destination, and a call made on the same path is asleep behind it.
C19_Witness ==
    \E o \in DOMAIN op, b \in DOMAIN op :
        /\ op[o].kind = "copyFile" /\ op[o].path = op[o].dest
        /\ op[o].acq = <<op[o].path>> /\ op[o].pc = "wait" /\ op[o].waited
        /\ b # o /\ op[b].kind # "copyFile" /\ op[b].path = op[o].path
        /\ op[b].pc = "wait" /\ op[b].waited

\* C20: with single-path locking calls only, nobody else calling
\* releaseLock, filesystem calls that end and an event loop that runs what
\* is ready: every call that was made eventually settles, having acquired
\* and released its path once and made one filesystem call, and in the end
\* all calls made are settled and the lock table is empty.
C20_AllSettleTableEmpty ==
    /\ \A o \in 1..NumFair :
          (op[o].pc # "idle") ~>
              (/\ Settled(o)
               /\ op[o].acq = <<op[o].path>> /\ op[o].rel = op[o].acq
               /\ \/ op[o].outcome = "resolved" /\ op[o].ioerr = ""
                  \/ op[o].outcome = "rejected" /\ op[o].ioerr # "")
    /\ <>[](/\ \A o \in 1..NumFair : op[o].pc = "idle" \/ Settled(o)
            /\ fileLocks = EmptyMap)

\* All calls were made, on one path, and one of them had to sleep for
\* another; all have settled, each after its filesystem call, and the table
\* is empty.
C20_Witness ==
    /\ \A o \in DOMAIN op : Settled(o) /\ op[o].rel = <<op[o].path>>
    /\ \E a \in DOMAIN op, b \in DOMAIN op :
          a # b /\ op[a].path = op[b].path /\ op[b].waited
    /\ fileLocks = EmptyMap

====
